---- MODULE Spec2Model ----
(***************************************************************************)
(* TedBot (src/TedBot.py): a Discord bot that polls Bluesky, YouTube and   *)
(* Instagram every ten minutes and posts an embed for each new item.       *)
(*                                                                         *)
(* The model follows the SocialMediaBot object (its last-seen dictionaries *)
(* and the bot_config.json file it saves and loads), the six fetch_*       *)
(* coroutines, and the polling loop check_social_media that calls them and *)
(* sends what they return.  The sources' feeds, the outcome of each API    *)
(* call, of each write of the file and of each send, and process restarts  *)
(* are the environment.                                                    *)
(***************************************************************************)
EXTENDS Integers, Sequences, FiniteSets, TLC

\* ------------------------------------------------------------------ bounds
\* Feed changes (an item published or removed at a source) in one behaviour.
MaxEvents == 3
\* Process restarts in one behaviour.
MaxRestarts == 1
\* The consecutive-failure ceiling of a source; failures are counted up to it.
FailureCeiling == 2

\* How many times set is called on the lookup cache.
MaxSets == 4

\* The limit of the rate limiter: at most max_requests requests to one source
\* within any time_window seconds.
max_requests == 2
time_window == 60

\* The capacity of the lookup cache.
maxsize == 2

\* ------------------------------------------------------- program constants
bluesky_accounts == <<"aatgoosepod.bsky.social", "goose-band.bsky.social">>
youtube_channels == <<"goosetheband">>
instagram_accounts == <<"goosetheband">>

\* limit=1 of get_author_feed, maxResults=5 of search().list, the amount 1 of
\* user_medias, and the [-50:] slice of the seen stories.
BlueskyLimit == 1
YoutubeMaxResults == 5
InstagramMediaAmount == 1
StoriesKept == 50

\* The interval of the polling loop, in minutes, and the seconds a YouTube
\* fetcher sleeps after a 403.
LoopMinutes == 10
QuotaSleep == 3600

Range(s) == {s[i] : i \in DOMAIN s}

Categories == {"bluesky", "video", "live", "ig_post", "ig_story", "ig_live"}

\* A dedup key is a category of one account; an item is a key and an id.
Keys ==
  ({"bluesky"} \X Range(bluesky_accounts))
    \cup ({"video", "live"} \X Range(youtube_channels))
    \cup ({"ig_post", "ig_story", "ig_live"} \X Range(instagram_accounts))

Item(cat, account, id) == <<cat, account, id>>
KeyOf(item) == <<item[1], item[2]>>
IdOf(item) == item[3]

VARIABLES
  social_bot,    \* the SocialMediaBot object: its fields
  config_file,   \* bot_config.json: [status, data]
  feed,          \* per key, what the source holds now, in the order it returns it
  published,     \* per key, how many items the source has published so far
  pc,            \* where check_social_media stands
  embed,         \* the embed the last fetch returned ({}: None)
  send,          \* what became of it: "none", "pending", "sent", "failed"
  yt_next,       \* the position of the handle loop across a quota sleep
  run,           \* how many times the process was restarted
  events,        \* how many feed changes happened
  produced,      \* items a fetch returned an embed for
  delivered,     \* items whose embed the sink accepted
  quiet,         \* 0: disturbed; 1: a cycle with no fault so far; 2: and a replay
                 \* of the fetch results of the fault-free cycle before it
  cycle_new,     \* keys whose newest item was new when the cycle began
  cycle_notes,   \* items the current cycle produced a notification for
  prev_notes,    \* items the cycle before produced a notification for
  stale,         \* items published longer ago than the staleness window
  failures,      \* calls of fetch_instagram_posts that raised, in a row
  ended,         \* pairs <<livestream, video>> of items that are one YouTube id
  youtube_calls, \* requests sent to the YouTube API with no wait of time_window
                 \* or longer before or between them
  result_cache,  \* the lookup cache: its entries <<key, value>>, oldest set first
  cache_log      \* what was asked of the cache: every set so far, in order, and
                 \* the key and the answer of a get made after the last of them

vars ==
  <<social_bot, config_file, feed, published, pc, embed, send, yt_next, run, events,
    produced, delivered, quiet, cycle_new, cycle_notes, prev_notes, stale, failures, ended,
    youtube_calls, result_cache, cache_log>>

\* The state of the polling program, and the state of the lookup cache.
program_vars ==
  <<social_bot, config_file, feed, published, pc, embed, send, yt_next, run, events,
    produced, delivered, quiet, cycle_new, cycle_notes, prev_notes, stale, failures, ended,
    youtube_calls>>
cache_vars == <<result_cache, cache_log>>

\* ------------------------------------------------------------ dictionaries
\* A Python dict is a function; {} is the function with no domain.
EmptyDict == <<>>
Put(d, k, v) == [x \in (DOMAIN d) \cup {k} |-> IF x = k THEN v ELSE d[x]]
Get(d, k, default) == IF k \in DOMAIN d THEN d[k] ELSE default

Take(s, n) == IF Len(s) <= n THEN s ELSE SubSeq(s, 1, n)
LastN(s, n) == IF Len(s) <= n THEN s ELSE SubSeq(s, Len(s) - n + 1, Len(s))

\* ------------------------------------------------------------- persistence
\* SocialMediaBot.__init__, lines 67-92: the fields before load_config.  The
\* notification channel ids and last_community_posts are never read by the
\* fetchers and are left out.
DefaultBot ==
  [ last_bluesky_posts |-> EmptyDict,
    youtube_channel_ids |-> EmptyDict,
    last_videos |-> EmptyDict,
    last_livestreams |-> EmptyDict,
    instagram_client |-> FALSE,
    last_instagram_posts |-> EmptyDict,
    last_instagram_stories |-> EmptyDict,
    last_instagram_lives |-> EmptyDict,
    notify_instagram_posts |-> TRUE,
    notify_instagram_stories |-> TRUE,
    notify_instagram_lives |-> TRUE,
    notify_videos |-> TRUE,
    notify_livestreams |-> TRUE ]

NoFile == [status |-> "absent", data |-> EmptyDict]
TornFile == [status |-> "torn", data |-> EmptyDict]

\* What a write of the file meets: it completes, open() raises and the file
\* is left as it was, or the write stops part-way and leaves no valid JSON.
SaveOutcomes == {"ok", "open_fails", "torn"}

\* The dictionary save_config dumps, lines 105-122.
ConfigOf(bot) ==
  [ notify_videos |-> bot.notify_videos,
    notify_livestreams |-> bot.notify_livestreams,
    notify_instagram_posts |-> bot.notify_instagram_posts,
    notify_instagram_stories |-> bot.notify_instagram_stories,
    notify_instagram_lives |-> bot.notify_instagram_lives,
    last_videos |-> bot.last_videos,
    last_livestreams |-> bot.last_livestreams,
    last_bluesky_posts |-> bot.last_bluesky_posts,
    last_instagram_posts |-> bot.last_instagram_posts,
    last_instagram_stories |-> bot.last_instagram_stories,
    last_instagram_lives |-> bot.last_instagram_lives,
    youtube_channel_ids |-> bot.youtube_channel_ids ]

\* save_config, lines 103-129: the file after the call.  An exception is
\* logged and swallowed, so the caller never learns the write failed.
save_config(bot, file, s) ==
  CASE s = "ok" -> [status |-> "ok", data |-> ConfigOf(bot)]
    [] s = "open_fails" -> file
    [] OTHER -> TornFile

\* A load_config that never finds the file: what C6 must tell from the real one.
load_config_skipped(bot, file) == bot

\* load_config, lines 131-157: the fields after the call.  A missing file is
\* skipped; a file json.load rejects raises before any field is assigned.
load_config(bot, file) ==
  IF file.status # "ok" THEN bot
  ELSE LET config == file.data IN
    [ bot EXCEPT
        !.notify_videos = Get(config, "notify_videos", bot.notify_videos),
        !.notify_livestreams = Get(config, "notify_livestreams", bot.notify_livestreams),
        !.notify_instagram_posts =
            Get(config, "notify_instagram_posts", bot.notify_instagram_posts),
        !.notify_instagram_stories =
            Get(config, "notify_instagram_stories", bot.notify_instagram_stories),
        !.notify_instagram_lives =
            Get(config, "notify_instagram_lives", bot.notify_instagram_lives),
        !.last_videos = Get(config, "last_videos", EmptyDict),
        !.last_livestreams = Get(config, "last_livestreams", EmptyDict),
        !.last_bluesky_posts = Get(config, "last_bluesky_posts", EmptyDict),
        !.last_instagram_posts = Get(config, "last_instagram_posts", EmptyDict),
        !.last_instagram_stories = Get(config, "last_instagram_stories", EmptyDict),
        !.last_instagram_lives = Get(config, "last_instagram_lives", EmptyDict),
        !.youtube_channel_ids = Get(config, "youtube_channel_ids", EmptyDict) ]

\* The channel id the search returns for a handle.
ChannelIdOf(handle) == <<"UC", handle>>

\* init_youtube_channel_ids, lines 159-180: a handle with no stored id is
\* searched for; `found` is the set of handles the search resolves.
RECURSIVE ResolveFrom(_, _, _)
ResolveFrom(i, ids, found) ==
  IF i > Len(youtube_channels) THEN ids
  ELSE LET handle == youtube_channels[i] IN
    IF handle \notin DOMAIN ids /\ handle \in found
      THEN ResolveFrom(i + 1, Put(ids, handle, ChannelIdOf(handle)), found)
      ELSE ResolveFrom(i + 1, ids, found)

\* The channel searches init_youtube_channel_ids sends (line 171): one per
\* handle that has no stored id, whatever the search then answers.
SearchRequests(bot) ==
  Cardinality({h \in Range(youtube_channels) : h \notin DOMAIN bot.youtube_channel_ids})

init_youtube_channel_ids(bot, found) ==
  [bot EXCEPT !.youtube_channel_ids = ResolveFrom(1, bot.youtube_channel_ids, found)]

\* init_instagram_client, lines 182-213.  "no_credentials" returns before the
\* field is touched; "ok" leaves a logged-in client; "login_fails" ends in the
\* except clause, which sets the field to None.
LoginOutcomes == {"no_credentials", "ok", "login_fails"}

init_instagram_client(bot, login) ==
  CASE login = "no_credentials" -> bot
    [] login = "ok" -> [bot EXCEPT !.instagram_client = TRUE]
    [] OTHER -> [bot EXCEPT !.instagram_client = FALSE]

\* SocialMediaBot.__init__, lines 66-101.
NewBot(file, found, login) ==
  init_instagram_client(
    init_youtube_channel_ids(load_config(DefaultBot, file), found), login)

\* ---------------------------------------------------------------- fetching
\* The items a source returns for a key: the newest `limit` of its feed for
\* the calls that pass a limit, the whole feed for user_stories and
\* user_broadcast.
Limit(cat) ==
  CASE cat = "bluesky" -> BlueskyLimit
    [] cat = "ig_post" -> InstagramMediaAmount
    [] OTHER -> YoutubeMaxResults

Window(cat, account) ==
  IF cat \in {"ig_story", "ig_live"}
    THEN feed[<<cat, account>>]
    ELSE Take(feed[<<cat, account>>], Limit(cat))

\* A comparison that finds every item new: what C5 must tell from the real one.
IsNewAlways(last, account, id) == TRUE

\* A comparison that finds new only the first item of an account: what C9
\* must tell from the real one.
IsNewFirstOnly(last, account, id) == account \notin DOMAIN last

\* A comparison that finds nothing new for an account without a marker, so
\* that the first poll would seed the marker: what C25 must tell from the real
\* one.
IsNewKnownOnly(last, account, id) == account \in DOMAIN last /\ last[account] # id

\* `account not in last or last[account] != id`, lines 222, 290, 367, 441, 620.
IsNew(last, account, id) == account \notin DOMAIN last \/ last[account] # id

\* `account not in seen or story_id not in seen[account]`, line 530.
IsNewStory(seen, account, id) ==
  account \notin DOMAIN seen \/ id \notin Range(seen[account])

\* What one fetch_* call leaves: the dictionary it updates, the embed it
\* returns ({} for None), whether it reached save_config, the handle the loop
\* goes on with after a quota sleep (0: no sleep), and whether it called
\* init_instagram_client.
Result(last, e, save, sleep, relogin) ==
  [last |-> last, embed |-> e, save |-> save, sleep |-> sleep, relogin |-> relogin]

\* What the calls made for one Bluesky account meet: they return, one of
\* get_profile / get_author_feed raises, or building the embed raises.
BlueskyOutcomes == {"ok", "error", "late_error"}

\* A loop that, having found its embed, goes on to set the markers of the
\* accounts after it: what C21 must tell from the real one.
RECURSIVE BlueskyScanAll(_, _, _)
BlueskyScanAll(i, resp, last) ==
  IF i > Len(bluesky_accounts) THEN Result(last, {}, FALSE, 0, FALSE)
  ELSE LET account == bluesky_accounts[i]
           posts == Window("bluesky", account) IN
    IF resp[account] = "error" THEN Result(last, {}, FALSE, 0, FALSE)
    ELSE IF posts # <<>> /\ IsNew(last, account, posts[1])
      THEN LET last1 == Put(last, account, posts[1])
               rest == BlueskyScanAll(i + 1, resp, last1) IN
        IF resp[account] = "late_error"
          THEN Result(last1, {}, FALSE, 0, FALSE)
          ELSE Result(rest.last, {Item("bluesky", account, posts[1])}, TRUE, 0, FALSE)
      ELSE BlueskyScanAll(i + 1, resp, last)

\* fetch_bluesky_posts, lines 215-267: one try around the whole loop.
RECURSIVE BlueskyScan(_, _, _)
BlueskyScan(i, resp, last) ==
  IF i > Len(bluesky_accounts) THEN Result(last, {}, FALSE, 0, FALSE)
  ELSE LET account == bluesky_accounts[i]
           posts == Window("bluesky", account) IN
    IF resp[account] = "error" THEN Result(last, {}, FALSE, 0, FALSE)
    ELSE IF posts # <<>> /\ IsNew(last, account, posts[1])
      THEN LET last1 == Put(last, account, posts[1]) IN
        IF resp[account] = "late_error"
          THEN Result(last1, {}, FALSE, 0, FALSE)
          ELSE Result(last1, {Item("bluesky", account, posts[1])}, TRUE, 0, FALSE)
      ELSE BlueskyScan(i + 1, resp, last)

\* What the calls made for one YouTube handle meet.  "quota" and "error": the
\* search raises HttpError 403, or anything else.  After the marker is set:
\* "no_details" (videos().list returns no items), "late_quota" (it raises
\* HttpError 403), "late_error" (it, or building the embed, raises).
VideoOutcomes == {"ok", "quota", "error", "no_details", "late_quota", "late_error"}
LiveOutcomes == {"ok", "quota", "error", "late_error"}

\* Every handle of youtube_channels, resolved or not: what C27 must tell
\* from the handles the fetchers loop over.
HandlesAll(bot) == youtube_channels

\* The handles of youtube_channel_ids, in the order of the dictionary.
Handles(bot) == SelectSeq(youtube_channels, LAMBDA h : h \in DOMAIN bot.youtube_channel_ids)

\* The loop of fetch_youtube_videos, lines 273-345, from handle i on: one
\* try per handle, and an hour's sleep inside the loop on a 403.
RECURSIVE VideoScan(_, _, _, _)
VideoScan(i, hs, resp, last) ==
  IF i > Len(hs) THEN Result(last, {}, FALSE, 0, FALSE)
  ELSE LET handle == hs[i]
           items == Window("video", handle)
           o == resp[handle] IN
    CASE o = "quota" -> Result(last, {}, FALSE, i + 1, FALSE)
      [] o = "error" -> VideoScan(i + 1, hs, resp, last)
      [] o \notin {"quota", "error"} /\ items # <<>> /\ IsNew(last, handle, items[1]) ->
           LET last1 == Put(last, handle, items[1]) IN
           CASE o = "late_quota" -> Result(last1, {}, FALSE, i + 1, FALSE)
             [] o \in {"no_details", "late_error"} -> VideoScan(i + 1, hs, resp, last1)
             [] OTHER -> Result(last1, {Item("video", handle, items[1])}, TRUE, 0, FALSE)
      [] OTHER -> VideoScan(i + 1, hs, resp, last)

\* A livestream loop that builds the embed of a video: what C18 must tell
\* from the real one.
RECURSIVE LiveScanAsVideo(_, _, _, _)
LiveScanAsVideo(i, hs, resp, last) ==
  IF i > Len(hs) THEN Result(last, {}, FALSE, 0, FALSE)
  ELSE LET handle == hs[i]
           items == Window("live", handle)
           o == resp[handle] IN
    CASE o = "quota" -> Result(last, {}, FALSE, i + 1, FALSE)
      [] o = "error" -> LiveScanAsVideo(i + 1, hs, resp, last)
      [] o \notin {"quota", "error"} /\ items # <<>> /\ IsNew(last, handle, items[1]) ->
           LET last1 == Put(last, handle, items[1]) IN
           IF o = "late_error"
             THEN LiveScanAsVideo(i + 1, hs, resp, last1)
             ELSE Result(last1, {Item("video", handle, items[1])}, TRUE, 0, FALSE)
      [] OTHER -> LiveScanAsVideo(i + 1, hs, resp, last)

\* The loop of fetch_youtube_livestreams, lines 351-416, from handle i on.
RECURSIVE LiveScan(_, _, _, _)
LiveScan(i, hs, resp, last) ==
  IF i > Len(hs) THEN Result(last, {}, FALSE, 0, FALSE)
  ELSE LET handle == hs[i]
           items == Window("live", handle)
           o == resp[handle] IN
    CASE o = "quota" -> Result(last, {}, FALSE, i + 1, FALSE)
      [] o = "error" -> LiveScan(i + 1, hs, resp, last)
      [] o \notin {"quota", "error"} /\ items # <<>> /\ IsNew(last, handle, items[1]) ->
           LET last1 == Put(last, handle, items[1]) IN
           IF o = "late_error"
             THEN LiveScan(i + 1, hs, resp, last1)
             ELSE Result(last1, {Item("live", handle, items[1])}, TRUE, 0, FALSE)
      [] OTHER -> LiveScan(i + 1, hs, resp, last)

\* What the calls made for one Instagram account meet: they return, they
\* raise, they raise an error whose text holds "login_required", or building
\* the embed raises.
InstagramOutcomes == {"ok", "error", "login_required", "late_error"}

\* fetch_instagram_posts (lines 429-510) and fetch_instagram_lives (lines
\* 608-678): one try around the whole loop, the newest item against the marker.
RECURSIVE InstagramScan(_, _, _, _)
InstagramScan(cat, i, resp, last) ==
  IF i > Len(instagram_accounts) THEN Result(last, {}, FALSE, 0, FALSE)
  ELSE LET account == instagram_accounts[i]
           medias == Window(cat, account) IN
    CASE resp[account] = "error" -> Result(last, {}, FALSE, 0, FALSE)
      [] resp[account] = "login_required" -> Result(last, {}, FALSE, 0, TRUE)
      [] resp[account] \in {"ok", "late_error"}
           /\ medias # <<>> /\ IsNew(last, account, medias[1]) ->
           LET last1 == Put(last, account, medias[1]) IN
           IF resp[account] = "late_error"
             THEN Result(last1, {}, FALSE, 0, FALSE)
             ELSE Result(last1, {Item(cat, account, medias[1])}, TRUE, 0, FALSE)
      [] OTHER -> InstagramScan(cat, i + 1, resp, last)

\* The position of the last unseen story instead of the first: what C10 must
\* tell from the real loop.
LastUnseen(stories, j, seen, account) ==
  LET unseen == {i \in j..Len(stories) : IsNewStory(seen, account, stories[i])} IN
  IF unseen = {} THEN 0 ELSE CHOOSE i \in unseen : \A i2 \in unseen : i2 <= i

\* The position of the first story of `stories`, from j on, that is not in
\* the seen list (0: none), lines 527-530.
RECURSIVE FirstUnseen(_, _, _, _)
FirstUnseen(stories, j, seen, account) ==
  IF j > Len(stories) THEN 0
  ELSE IF IsNewStory(seen, account, stories[j]) THEN j
  ELSE FirstUnseen(stories, j + 1, seen, account)

\* fetch_instagram_stories, lines 517-601: the first unseen story is appended
\* to the account's list, which keeps its last StoriesKept ids.
RECURSIVE StoriesScan(_, _, _)
StoriesScan(i, resp, seen) ==
  IF i > Len(instagram_accounts) THEN Result(seen, {}, FALSE, 0, FALSE)
  ELSE LET account == instagram_accounts[i]
           stories == Window("ig_story", account)
           j == FirstUnseen(stories, 1, seen, account) IN
    CASE resp[account] = "error" -> Result(seen, {}, FALSE, 0, FALSE)
      [] resp[account] = "login_required" -> Result(seen, {}, FALSE, 0, TRUE)
      [] resp[account] \in {"ok", "late_error"} /\ j > 0 ->
           LET seen1 ==
                 Put(seen, account,
                     LastN(Append(Get(seen, account, <<>>), stories[j]), StoriesKept)) IN
           IF resp[account] = "late_error"
             THEN Result(seen1, {}, FALSE, 0, FALSE)
             ELSE Result(seen1, {Item("ig_story", account, stories[j])}, TRUE, 0, FALSE)
      [] OTHER -> StoriesScan(i + 1, resp, seen)

\* ------------------------------------------------------------ bookkeeping
\* The dictionary of the object that holds a category's markers.
LastOf(bot, cat) ==
  CASE cat = "bluesky" -> bot.last_bluesky_posts
    [] cat = "video" -> bot.last_videos
    [] cat = "live" -> bot.last_livestreams
    [] cat = "ig_post" -> bot.last_instagram_posts
    [] cat = "ig_story" -> bot.last_instagram_stories
    [] OTHER -> bot.last_instagram_lives

\* The ids a dictionary records as seen for a key: the marker, or the list.
SeenIds(last, cat, account) ==
  IF account \notin DOMAIN last THEN {}
  ELSE IF cat = "ig_story" THEN Range(last[account]) ELSE {last[account]}

\* The items of a key's window that are unseen: for a list, those not in it;
\* for a marker, those the source returns before the marker (all of them when
\* the marker is not in the window).
RECURSIVE Before(_, _, _)
Before(w, j, ids) ==
  IF j > Len(w) \/ w[j] \in ids THEN {} ELSE {w[j]} \cup Before(w, j + 1, ids)

Unseen(last, cat, account) ==
  LET w == Window(cat, account) IN
  IF cat = "ig_story"
    THEN {w[j] : j \in DOMAIN w} \ SeenIds(last, cat, account)
    ELSE Before(w, 1, SeenIds(last, cat, account))

\* The keys whose newest item a poll would find new.
NewKeys(bot) ==
  {k \in Keys : Unseen(LastOf(bot, k[1]), k[1], k[2]) # {}}

\* The outcomes the file write and the re-login of a call can meet: one
\* stands for all when the call makes no write, or no login.
SavesOf(r) == IF r.save THEN SaveOutcomes ELSE {"ok"}
LoginsOf(r) == IF r.relogin THEN {"ok", "login_fails"} ELSE {"ok"}

\* What every fetch_* call ends with: the embed it returns goes to the loop,
\* which moves on to `next`.  `clean`: every call it made returned.  The
\* record of a cycle is dropped once a fault disturbs it.
Returned(r, next, clean) ==
  /\ embed' = r.embed
  /\ send' = IF r.embed = {} THEN "none" ELSE "pending"
  /\ pc' = next
  /\ produced' = produced \cup r.embed
  /\ quiet' = IF clean THEN quiet ELSE 0
  /\ cycle_notes' = IF clean /\ quiet > 0 THEN cycle_notes \cup r.embed ELSE {}
  /\ cycle_new' = IF clean /\ quiet > 0 THEN cycle_new ELSE {}
  /\ prev_notes' = IF clean /\ quiet > 0 THEN prev_notes ELSE {}
  /\ UNCHANGED <<feed, published, run, events, delivered, stale, ended>>
  /\ UNCHANGED cache_vars

AllOk(resp) == \A a \in DOMAIN resp : resp[a] = "ok"

\* The requests fetch_youtube_videos sends from handle i on, up to its return
\* or its sleep: search().list per handle (line 284) and, for a new video,
\* videos().list (line 297).
RECURSIVE VideoRequests(_, _, _, _)
VideoRequests(i, hs, resp, last) ==
  IF i > Len(hs) THEN 0
  ELSE LET handle == hs[i]
           items == Window("video", handle)
           o == resp[handle] IN
    CASE o = "quota" -> 1
      [] o = "error" -> 1 + VideoRequests(i + 1, hs, resp, last)
      [] o \notin {"quota", "error"} /\ items # <<>> /\ IsNew(last, handle, items[1]) ->
           IF o \in {"no_details", "late_error"}
             THEN 2 + VideoRequests(i + 1, hs, resp, Put(last, handle, items[1]))
             ELSE 2
      [] OTHER -> 1 + VideoRequests(i + 1, hs, resp, last)

\* The requests fetch_youtube_livestreams sends from handle i on:
\* search().list per handle (line 361).
RECURSIVE LiveRequests(_, _, _, _)
LiveRequests(i, hs, resp, last) ==
  IF i > Len(hs) THEN 0
  ELSE LET handle == hs[i]
           items == Window("live", handle)
           o == resp[handle] IN
    CASE o = "quota" -> 1
      [] o = "error" -> 1 + LiveRequests(i + 1, hs, resp, last)
      [] o \notin {"quota", "error"} /\ items # <<>> /\ IsNew(last, handle, items[1]) ->
           IF o = "late_error"
             THEN 1 + LiveRequests(i + 1, hs, resp, Put(last, handle, items[1]))
             ELSE 1
      [] OTHER -> 1 + LiveRequests(i + 1, hs, resp, last)

\* The requests that still count once the caller has waited `seconds`, if it
\* waited: none when the wait is as long as the window.
Waited(waits, seconds) == IF waits /\ seconds >= time_window THEN 0 ELSE youtube_calls

\* ----------------------------------------------------------------- actions
\* fetch_bluesky_posts, lines 215-267.
fetch_bluesky_posts(outcomes) ==
  /\ pc = "bluesky" /\ send # "pending"
  /\ UNCHANGED <<failures, youtube_calls>>
  /\ \E resp \in [Range(bluesky_accounts) -> outcomes] :
       LET r == BlueskyScan(1, resp, social_bot.last_bluesky_posts)
           bot1 == [social_bot EXCEPT !.last_bluesky_posts = r.last] IN
       \E s \in SavesOf(r) :
       /\ social_bot' = bot1
       /\ config_file' = IF r.save THEN save_config(bot1, config_file, s) ELSE config_file
       /\ yt_next' = yt_next
       /\ Returned(r, "videos", AllOk(resp) /\ (r.save => s = "ok"))

\* A fetch_youtube_videos without the test of notify_videos: what C23 must
\* tell from the real one.
fetch_youtube_videos_unguarded(outcomes) ==
  /\ pc \in {"videos", "videos_sleep"} /\ send # "pending"
  /\ failures' = failures
  /\ \E resp \in [Range(youtube_channels) -> outcomes] :
       LET from == IF pc = "videos" THEN 1 ELSE yt_next
           r == VideoScan(from, Handles(social_bot), resp, social_bot.last_videos)
           bot1 == [social_bot EXCEPT !.last_videos = r.last] IN
       \E s \in SavesOf(r) :
       /\ social_bot' = bot1
       /\ config_file' = IF r.save THEN save_config(bot1, config_file, s) ELSE config_file
       /\ yt_next' = r.sleep
       /\ youtube_calls' = Waited(pc = "videos_sleep", QuotaSleep) +
            VideoRequests(from, Handles(social_bot), resp, social_bot.last_videos)
       /\ Returned(r, IF r.sleep > 0 THEN "videos_sleep" ELSE "livestreams",
                   AllOk(resp) /\ (r.save => s = "ok"))

\* fetch_youtube_videos, lines 269-345: from its call to its return or to
\* asyncio.sleep(3600), line 339, and from that sleep on, where the loop goes
\* on with the next handle.
fetch_youtube_videos(outcomes) ==
  /\ pc \in {"videos", "videos_sleep"} /\ send # "pending"
  /\ failures' = failures
  /\ IF pc = "videos" /\ ~social_bot.notify_videos
       THEN /\ UNCHANGED <<social_bot, config_file, yt_next, youtube_calls>>
            /\ Returned(Result(social_bot.last_videos, {}, FALSE, 0, FALSE),
                        "livestreams", TRUE)
       ELSE \E resp \in [Range(youtube_channels) -> outcomes] :
              LET from == IF pc = "videos" THEN 1 ELSE yt_next
                  r == VideoScan(from, Handles(social_bot), resp, social_bot.last_videos)
                  bot1 == [social_bot EXCEPT !.last_videos = r.last] IN
              \E s \in SavesOf(r) :
              /\ social_bot' = bot1
              /\ config_file' =
                   IF r.save THEN save_config(bot1, config_file, s) ELSE config_file
              /\ yt_next' = r.sleep
              /\ youtube_calls' = Waited(pc = "videos_sleep", QuotaSleep) +
                   VideoRequests(from, Handles(social_bot), resp, social_bot.last_videos)
              /\ Returned(r, IF r.sleep > 0 THEN "videos_sleep" ELSE "livestreams",
                          AllOk(resp) /\ (r.save => s = "ok"))

\* A fetch_youtube_livestreams that keeps its marker in last_videos: what C8
\* must tell from the real one.
fetch_youtube_livestreams_shared(outcomes) ==
  /\ pc \in {"livestreams", "livestreams_sleep"} /\ send # "pending"
  /\ failures' = failures
  /\ \E resp \in [Range(youtube_channels) -> outcomes] :
       LET from == IF pc = "livestreams" THEN 1 ELSE yt_next
           r == LiveScan(from, Handles(social_bot), resp, social_bot.last_videos)
           bot1 == [social_bot EXCEPT !.last_videos = r.last] IN
       \E s \in SavesOf(r) :
       /\ social_bot' = bot1
       /\ config_file' = IF r.save THEN save_config(bot1, config_file, s) ELSE config_file
       /\ yt_next' = r.sleep
       /\ youtube_calls' = Waited(pc = "livestreams_sleep", QuotaSleep) +
            LiveRequests(from, Handles(social_bot), resp, social_bot.last_videos)
       /\ Returned(r, IF r.sleep > 0 THEN "livestreams_sleep" ELSE "instagram_posts",
                   AllOk(resp) /\ (r.save => s = "ok"))

\* fetch_youtube_livestreams, lines 347-416: from its call to its return or
\* to asyncio.sleep(3600), line 410, and from that sleep on.
fetch_youtube_livestreams(outcomes) ==
  /\ pc \in {"livestreams", "livestreams_sleep"} /\ send # "pending"
  /\ failures' = failures
  /\ IF pc = "livestreams" /\ ~social_bot.notify_livestreams
       THEN /\ UNCHANGED <<social_bot, config_file, yt_next, youtube_calls>>
            /\ Returned(Result(social_bot.last_livestreams, {}, FALSE, 0, FALSE),
                        "instagram_posts", TRUE)
       ELSE \E resp \in [Range(youtube_channels) -> outcomes] :
              LET from == IF pc = "livestreams" THEN 1 ELSE yt_next
                  r == LiveScan(from, Handles(social_bot), resp, social_bot.last_livestreams)
                  bot1 == [social_bot EXCEPT !.last_livestreams = r.last] IN
              \E s \in SavesOf(r) :
              /\ social_bot' = bot1
              /\ config_file' =
                   IF r.save THEN save_config(bot1, config_file, s) ELSE config_file
              /\ yt_next' = r.sleep
              /\ youtube_calls' = Waited(pc = "livestreams_sleep", QuotaSleep) +
                   LiveRequests(from, Handles(social_bot), resp,
                                social_bot.last_livestreams)
              /\ Returned(r, IF r.sleep > 0 THEN "livestreams_sleep" ELSE "instagram_posts",
                          AllOk(resp) /\ (r.save => s = "ok"))

\* The except clause of the Instagram fetchers, lines 503-508: a
\* "login_required" error calls init_instagram_client.
Relogin(bot, r, login) == IF r.relogin THEN init_instagram_client(bot, login) ELSE bot

\* A fetch_instagram_posts without the test of instagram_client and of the
\* flag: what C26 must tell from the real one.
fetch_instagram_posts_unguarded(outcomes) ==
  /\ pc = "instagram_posts" /\ send # "pending"
  /\ \E resp \in [Range(instagram_accounts) -> outcomes] :
       LET r == InstagramScan("ig_post", 1, resp, social_bot.last_instagram_posts)
           bot1 == [social_bot EXCEPT !.last_instagram_posts = r.last] IN
       \E s \in SavesOf(r), login \in LoginsOf(r) :
       /\ social_bot' = Relogin(bot1, r, login)
       /\ config_file' = IF r.save THEN save_config(bot1, config_file, s) ELSE config_file
       /\ yt_next' = yt_next
       /\ youtube_calls' = youtube_calls
       /\ failures' = IF AllOk(resp) THEN 0
                      ELSE IF failures < FailureCeiling THEN failures + 1
                      ELSE failures
       /\ Returned(r, "instagram_stories", AllOk(resp) /\ (r.save => s = "ok"))

\* fetch_instagram_posts, lines 424-510.
fetch_instagram_posts(outcomes) ==
  /\ pc = "instagram_posts" /\ send # "pending"
  /\ IF ~social_bot.instagram_client \/ ~social_bot.notify_instagram_posts
       THEN /\ UNCHANGED <<social_bot, config_file, yt_next, failures, youtube_calls>>
            /\ Returned(Result(social_bot.last_instagram_posts, {}, FALSE, 0, FALSE),
                        "instagram_stories", TRUE)
       ELSE \E resp \in [Range(instagram_accounts) -> outcomes] :
              LET r == InstagramScan("ig_post", 1, resp, social_bot.last_instagram_posts)
                  bot1 == [social_bot EXCEPT !.last_instagram_posts = r.last] IN
              \E s \in SavesOf(r), login \in LoginsOf(r) :
              /\ social_bot' = Relogin(bot1, r, login)
              /\ config_file' =
                   IF r.save THEN save_config(bot1, config_file, s) ELSE config_file
              /\ yt_next' = yt_next
              /\ youtube_calls' = youtube_calls
              /\ failures' = IF AllOk(resp) THEN 0
                             ELSE IF failures < FailureCeiling THEN failures + 1
                             ELSE failures
              /\ Returned(r, "instagram_stories", AllOk(resp) /\ (r.save => s = "ok"))

\* fetch_instagram_stories, lines 512-601.
fetch_instagram_stories(outcomes) ==
  /\ pc = "instagram_stories" /\ send # "pending"
  /\ UNCHANGED <<failures, youtube_calls>>
  /\ IF ~social_bot.instagram_client \/ ~social_bot.notify_instagram_stories
       THEN /\ UNCHANGED <<social_bot, config_file, yt_next>>
            /\ Returned(Result(social_bot.last_instagram_stories, {}, FALSE, 0, FALSE),
                        "instagram_lives", TRUE)
       ELSE \E resp \in [Range(instagram_accounts) -> outcomes] :
              LET r == StoriesScan(1, resp, social_bot.last_instagram_stories)
                  bot1 == [social_bot EXCEPT !.last_instagram_stories = r.last] IN
              \E s \in SavesOf(r), login \in LoginsOf(r) :
              /\ social_bot' = Relogin(bot1, r, login)
              /\ config_file' =
                   IF r.save THEN save_config(bot1, config_file, s) ELSE config_file
              /\ yt_next' = yt_next
              /\ Returned(r, "instagram_lives", AllOk(resp) /\ (r.save => s = "ok"))

\* fetch_instagram_lives, lines 603-678.
fetch_instagram_lives(outcomes) ==
  /\ pc = "instagram_lives" /\ send # "pending"
  /\ UNCHANGED <<failures, youtube_calls>>
  /\ IF ~social_bot.instagram_client \/ ~social_bot.notify_instagram_lives
       THEN /\ UNCHANGED <<social_bot, config_file, yt_next>>
            /\ Returned(Result(social_bot.last_instagram_lives, {}, FALSE, 0, FALSE),
                        "idle", TRUE)
       ELSE \E resp \in [Range(instagram_accounts) -> outcomes] :
              LET r == InstagramScan("ig_live", 1, resp, social_bot.last_instagram_lives)
                  bot1 == [social_bot EXCEPT !.last_instagram_lives = r.last] IN
              \E s \in SavesOf(r), login \in LoginsOf(r) :
              /\ social_bot' = Relogin(bot1, r, login)
              /\ config_file' =
                   IF r.save THEN save_config(bot1, config_file, s) ELSE config_file
              /\ yt_next' = yt_next
              /\ Returned(r, "idle", AllOk(resp) /\ (r.save => s = "ok"))

\* The outcomes the calls to a platform can meet when the environment lets
\* the platforms in `faulty` fail: the others always answer.
Calls(faulty, platform, all) == IF platform \in faulty THEN all ELSE {"ok"}

\* The handles the channel search of the constructor can resolve.
Searches(faulty) ==
  IF "youtube" \in faulty THEN SUBSET Range(youtube_channels) ELSE {Range(youtube_channels)}

\* check_social_media, line 710 on: the loop's tick starts a cycle, which
\* awaits the fetchers one after the other.
Tick ==
  /\ pc = "idle" /\ send # "pending"
  /\ pc' = "bluesky"
  /\ embed' = {}
  /\ send' = "none"
  /\ quiet' = IF quiet = 0 THEN 1 ELSE 2
  /\ cycle_new' = NewKeys(social_bot)
  /\ prev_notes' = IF quiet = 0 THEN {} ELSE cycle_notes
  /\ cycle_notes' = {}
  /\ youtube_calls' = Waited(TRUE, LoopMinutes * 60)
  /\ UNCHANGED <<social_bot, config_file, feed, published, yt_next, run, events,
                 produced, delivered, stale, failures, ended>>
  /\ UNCHANGED cache_vars

\* check_social_media: the embed a fetcher returned is sent to the channel;
\* the send succeeds or fails, and the cycle goes on.
Deliver ==
  /\ send = "pending"
  /\ \E sent \in BOOLEAN :
       /\ send' = IF sent THEN "sent" ELSE "failed"
       /\ delivered' = IF sent THEN delivered \cup embed ELSE delivered
       /\ quiet' = IF sent THEN quiet ELSE 0
       /\ cycle_notes' = IF sent THEN cycle_notes ELSE {}
       /\ cycle_new' = IF sent THEN cycle_new ELSE {}
       /\ prev_notes' = IF sent THEN prev_notes ELSE {}
  /\ UNCHANGED <<social_bot, config_file, feed, published, pc, embed, yt_next, run,
                 events, produced, stale, failures, ended, youtube_calls>>
  /\ UNCHANGED cache_vars

\* The process stops at any point and is started again: social_bot =
\* SocialMediaBot(), line 708, and the loop starts from idle.
Restart(faulty) ==
  /\ run < MaxRestarts
  /\ \E found \in Searches(faulty), login \in Calls(faulty, "instagram", LoginOutcomes) :
       social_bot' = NewBot(config_file, found, login)
  /\ run' = run + 1
  /\ pc' = "idle"
  /\ embed' = {}
  /\ send' = "none"
  /\ yt_next' = 0
  /\ quiet' = 0
  /\ cycle_new' = {}
  /\ cycle_notes' = {}
  /\ prev_notes' = {}
  /\ failures' = 0
  /\ youtube_calls' = SearchRequests(load_config(DefaultBot, config_file))
  /\ UNCHANGED <<config_file, feed, published, events, produced, delivered, stale, ended>>
  /\ UNCHANGED cache_vars

\* What the environment does to the feeds between two cycles.  Every fetch
\* reads the feed of its own key in one step, so a change during a cycle is a
\* change before it or after it.
Disturbed ==
  /\ pc = "idle" /\ send # "pending"
  /\ events < MaxEvents
  /\ events' = events + 1
  /\ quiet' = 0
  /\ cycle_new' = {}
  /\ cycle_notes' = {}
  /\ prev_notes' = {}
  /\ UNCHANGED <<social_bot, config_file, pc, embed, send, yt_next, run, produced,
                 delivered, failures, youtube_calls>>
  /\ UNCHANGED cache_vars

\* A source publishes an item: it becomes the first of its feed.
Publish(k) ==
  /\ Disturbed
  /\ published' = [published EXCEPT ![k] = @ + 1]
  /\ feed' = [feed EXCEPT ![k] = <<published[k] + 1>> \o @]
  /\ stale' = stale
  /\ ended' = ended

\* The bot comes to see an item that was published longer ago than the
\* staleness window: the newest item of an account on a first run, or an
\* item published during a long outage.
PublishOld(k) ==
  /\ Disturbed
  /\ published' = [published EXCEPT ![k] = @ + 1]
  /\ feed' = [feed EXCEPT ![k] = <<published[k] + 1>> \o @]
  /\ stale' = stale \cup {Item(k[1], k[2], published[k] + 1)}
  /\ ended' = ended

\* The newest item of a feed goes away: a video is deleted, a livestream ends.
Remove(k) ==
  /\ Disturbed
  /\ feed[k] # <<>>
  /\ published' = published
  /\ feed' = [feed EXCEPT ![k] = Tail(@)]
  /\ stale' = stale
  /\ ended' = ended

\* A livestream of a channel ends: it leaves the answer of the live search
\* and, being a video of the channel from now on, comes first in the answer
\* of the video search, under the id it had.
EndBroadcast(handle) ==
  LET live == <<"live", handle>>
      video == <<"video", handle>> IN
  /\ Disturbed
  /\ feed[live] # <<>>
  /\ published' = [published EXCEPT ![video] = @ + 1]
  /\ feed' = [feed EXCEPT ![live] = Tail(@), ![video] = <<published[video] + 1>> \o @]
  /\ ended' = ended \cup {<<Item("live", handle, feed[live][1]),
                              Item("video", handle, published[video] + 1)>>}
  /\ stale' = stale

\* The categories that have a notify flag, and the field that holds it.
FlaggedCats == {"video", "live", "ig_post", "ig_story", "ig_live"}
FlagOf(cat) ==
  CASE cat = "video" -> "notify_videos"
    [] cat = "live" -> "notify_livestreams"
    [] cat = "ig_post" -> "notify_instagram_posts"
    [] cat = "ig_story" -> "notify_instagram_stories"
    [] OTHER -> "notify_instagram_lives"

\* A notify flag is turned off or on between two cycles, and the
\* configuration is saved or not.
Toggle(cat) ==
  /\ pc = "idle" /\ send # "pending"
  /\ events < MaxEvents
  /\ events' = events + 1
  /\ \E saves \in BOOLEAN :
       LET bot1 == [social_bot EXCEPT ![FlagOf(cat)] = ~@] IN
       /\ social_bot' = bot1
       /\ config_file' = IF saves THEN save_config(bot1, config_file, "ok") ELSE config_file
  /\ quiet' = 0
  /\ cycle_new' = {}
  /\ cycle_notes' = {}
  /\ prev_notes' = {}
  /\ UNCHANGED <<feed, published, pc, embed, send, yt_next, run, produced, delivered,
                 stale, failures, ended, youtube_calls>>
  /\ UNCHANGED cache_vars

\* A source publishes an item while the flag of its category is off.
PublishUnnoticed(k) == ~social_bot[FlagOf(k[1])] /\ Publish(k)

\* An account that had no story is found to hold more stories than the seen
\* list keeps: the stories of a busy day, polled for the first time.
PublishMany(k) ==
  /\ Disturbed
  /\ feed[k] = <<>>
  /\ published' = [published EXCEPT ![k] = @ + StoriesKept + 1]
  /\ feed' = [feed EXCEPT
                ![k] = [i \in 1..(StoriesKept + 1) |-> published[k] + StoriesKept + 2 - i]]
  /\ stale' = stale
  /\ ended' = ended

Init(faulty) ==
  /\ \E found \in Searches(faulty), login \in Calls(faulty, "instagram", LoginOutcomes) :
       social_bot = NewBot(NoFile, found, login)
  /\ config_file = NoFile
  /\ feed = [k \in Keys |-> <<>>]
  /\ published = [k \in Keys |-> 0]
  /\ pc = "idle"
  /\ embed = {}
  /\ send = "none"
  /\ yt_next = 0
  /\ run = 0
  /\ events = 0
  /\ produced = {}
  /\ delivered = {}
  /\ quiet = 0
  /\ cycle_new = {}
  /\ cycle_notes = {}
  /\ prev_notes = {}
  /\ stale = {}
  /\ failures = 0
  /\ ended = {}
  /\ youtube_calls = SearchRequests(load_config(DefaultBot, NoFile))
  /\ result_cache = <<>>
  /\ cache_log = [sets |-> <<>>, got |-> <<>>]

\* The program: the polling loop, its fetchers, and the process restarting.
Program(faulty) ==
  \/ Tick
  \/ fetch_bluesky_posts(Calls(faulty, "bluesky", BlueskyOutcomes))
  \/ fetch_youtube_videos(Calls(faulty, "youtube", VideoOutcomes))
  \/ fetch_youtube_livestreams(Calls(faulty, "youtube", LiveOutcomes))
  \/ fetch_instagram_posts(Calls(faulty, "instagram", InstagramOutcomes))
  \/ fetch_instagram_stories(Calls(faulty, "instagram", InstagramOutcomes))
  \/ fetch_instagram_lives(Calls(faulty, "instagram", InstagramOutcomes))
  \/ Deliver
  \/ Restart(faulty)

BlueskyKeys == {k \in Keys : k[1] = "bluesky"}
YoutubeKeys == {k \in Keys : k[1] \in {"video", "live"}}
InstagramKeys == {k \in Keys : k[1] \in {"ig_post", "ig_live"}}
StoriesKeys == {k \in Keys : k[1] = "ig_story"}

NextBluesky == Program({"bluesky"}) \/ \E k \in BlueskyKeys : Publish(k) \/ Remove(k)
NextYoutube == Program({"youtube"}) \/ \E k \in YoutubeKeys : Publish(k) \/ Remove(k)
NextInstagram == Program({"instagram"}) \/ \E k \in InstagramKeys : Publish(k) \/ Remove(k)
NextStories == Program({"instagram"}) \/ \E k \in StoriesKeys : Publish(k) \/ Remove(k)
NextStale ==
  Program({}) \/ \E k \in {<<"video", youtube_channels[1]>>, <<"ig_post", instagram_accounts[1]>>} :
                   Publish(k) \/ PublishOld(k) \/ Remove(k)
NextBroadcast ==
  \/ Program({})
  \/ \E k \in YoutubeKeys : Publish(k) \/ Remove(k)
  \/ \E handle \in Range(youtube_channels) : EndBroadcast(handle)
NextWindows ==
  Program({}) \/ \E k \in StoriesKeys \cup {<<"video", youtube_channels[1]>>} : Publish(k) \/ Remove(k)

\* The bot with one platform acting up: its feeds change and its calls can
\* fail, while the other platforms have nothing new and answer every call.
SpecBluesky == Init({"bluesky"}) /\ [][NextBluesky]_vars
SpecYoutube == Init({"youtube"}) /\ [][NextYoutube]_vars
SpecInstagram == Init({"instagram"}) /\ [][NextInstagram]_vars
SpecStories == Init({"instagram"}) /\ [][NextStories]_vars
\* Every call answers; the feeds of the stories and of the videos change.
SpecWindows == Init({}) /\ [][NextWindows]_vars
\* Every call answers; livestreams begin and end, videos appear.
SpecBroadcast == Init({}) /\ [][NextBroadcast]_vars
\* Every call answers; videos and Instagram posts appear, some of them old.
SpecStale == Init({}) /\ [][NextStale]_vars

\* Every call answers; notify flags are turned off and on, and items appear
\* while the flag of their category is off.
NextFlags ==
  \/ Program({})
  \/ \E cat \in FlaggedCats : Toggle(cat)
  \/ \E k \in {k \in Keys : k[1] \in FlaggedCats} : PublishUnnoticed(k)
SpecFlags == Init({}) /\ [][NextFlags]_vars

\* One run in which the Instagram session can expire and the logins can
\* fail, while every other call answers; Instagram posts and YouTube videos
\* appear.
LoginFaults == {"ok", "login_required"}
NextLogin ==
  \/ Tick
  \/ fetch_bluesky_posts({"ok"})
  \/ fetch_youtube_videos({"ok"})
  \/ fetch_youtube_livestreams({"ok"})
  \/ fetch_instagram_posts(LoginFaults)
  \/ fetch_instagram_stories(LoginFaults)
  \/ fetch_instagram_lives(LoginFaults)
  \/ Deliver
  \/ \E k \in {<<"video", youtube_channels[1]>>, <<"ig_post", instagram_accounts[1]>>} :
       Publish(k)
SpecLogin == Init({"instagram"}) /\ [][NextLogin]_vars

\* One run in which every call answers and every send succeeds; an account
\* holds more stories than the seen list keeps.
NextManyStories ==
  \/ Tick
  \/ fetch_bluesky_posts({"ok"})
  \/ fetch_youtube_videos({"ok"})
  \/ fetch_youtube_livestreams({"ok"})
  \/ fetch_instagram_posts({"ok"})
  \/ fetch_instagram_stories({"ok"})
  \/ fetch_instagram_lives({"ok"})
  \/ (Deliver /\ send' = "sent")
  \/ \E k \in StoriesKeys : PublishMany(k)
SpecManyStories == Init({}) /\ [][NextManyStories]_vars

\* ------------------------------------------------------------------ claims
\* The ids the object, and the file, record as seen for a key.
Seen(bot, k) == SeenIds(LastOf(bot, k[1]), k[1], k[2])

\* The dictionary a complete file stores for a category, by the key names of
\* the JSON object (lines 114-120).
FieldOf(cat) ==
  CASE cat = "bluesky" -> "last_bluesky_posts"
    [] cat = "video" -> "last_videos"
    [] cat = "live" -> "last_livestreams"
    [] cat = "ig_post" -> "last_instagram_posts"
    [] cat = "ig_story" -> "last_instagram_stories"
    [] OTHER -> "last_instagram_lives"

Saved(file, cat) == file.data[FieldOf(cat)]

FileSeen(file, k) ==
  IF file.status # "ok" THEN {} ELSE SeenIds(Saved(file, k[1]), k[1], k[2])

ItemsOf(k, ids) == {Item(k[1], k[2], id) : id \in ids}

\* A step in which a fetch returns an embed, and one in which a send succeeds.
Notifies == send # "pending" /\ send' = "pending"
Delivers == send = "pending" /\ send' = "sent"

VideoKey == <<"video", youtube_channels[1]>>
LiveKey == <<"live", youtube_channels[1]>>

\* C1 (as claimed): in every state, the ids that the object and the file hold
\* as last-notified for a key are ids of items whose delivery succeeded.
C1_MarkerOnlyAfterDelivery ==
  \A k \in Keys :
    ItemsOf(k, Seen(social_bot, k) \cup FileSeen(config_file, k)) \subseteq delivered

\* C2 (as claimed): an item whose delivery failed stays unseen, in the object
\* and in the file, so that the next cycle finds it new again.
C2_FailedDeliveryStaysUnseen ==
  send = "failed" =>
    \A x \in embed :
      IdOf(x) \notin Seen(social_bot, KeyOf(x)) \cup FileSeen(config_file, KeyOf(x))

\* C4 (as claimed): the marker of a key never holds an item for which no
\* notification was produced.
C4_MarkerImpliesNotification ==
  \A k \in Keys : ItemsOf(k, Seen(social_bot, k)) \subseteq produced

\* C3: within one continuous run no item is notified twice for
\* its key, whatever was committed in between.
C3_NeverNotifiedTwiceInARun ==
  [][(run = 0 /\ Delivers) => embed \cap delivered = {}]_vars

\* C5 (as claimed): a cycle that replays the fetch results of the cycle
\* before it, all deliveries succeeding, produces no notification.
C5_ReplayProducesNothing == quiet = 2 => cycle_notes = {}

\* C5 (amended): a replayed cycle never notifies an item the cycle before
\* notified, and leaves the marker of such an item in place.
C5_ReplayNeverRepeats ==
  quiet = 2 =>
    /\ cycle_notes \cap prev_notes = {}
    /\ \A x \in prev_notes : IdOf(x) \in Seen(social_bot, KeyOf(x))

\* A replayed cycle ended after the cycle before it had notified an item.
C5_Witness == pc = "idle" /\ quiet = 2 /\ prev_notes # {} /\ send # "pending"

\* C6: a completed write stores every last-seen dictionary of the object, a
\* restart reads every one of them back unchanged, and so the restarted bot
\* finds no item new that the file holds as seen.
C6_RestartRestoresMarkers ==
  [][ /\ (config_file' # config_file /\ config_file'.status = "ok") =>
           \A cat \in Categories : Saved(config_file', cat) = LastOf(social_bot', cat)
      /\ (run' # run /\ config_file.status = "ok") =>
           /\ \A cat \in Categories : LastOf(social_bot', cat) = Saved(config_file, cat)
           /\ \A k \in Keys :
                Unseen(LastOf(social_bot', k[1]), k[1], k[2]) \cap FileSeen(config_file, k) = {} ]_vars

\* After a restart, a fault-free cycle notified nothing for a delivered item
\* that is still the newest and that the file and the object hold as seen.
C6_Witness ==
  /\ run = 1 /\ pc = "idle" /\ quiet = 1 /\ cycle_notes = {}
  /\ \E k \in YoutubeKeys :
       /\ feed[k] # <<>>
       /\ feed[k][1] \in Seen(social_bot, k) \cap FileSeen(config_file, k)
       /\ Item(k[1], k[2], feed[k][1]) \in delivered

\* C7 (as claimed): when the process stops while a notification is in flight,
\* the restarted bot still holds the undelivered item as unseen.
C7_CrashKeepsInFlightUnseen ==
  [][(run' # run /\ send = "pending") =>
       \A x \in embed \ delivered : IdOf(x) \notin Seen(social_bot', KeyOf(x))]_vars

\* The loop is past both YouTube fetchers of the cycle.
PastYoutube == pc \in {"instagram_posts", "instagram_stories", "instagram_lives", "idle"}

\* C8: the video fetcher leaves the livestream markers alone and the
\* livestream fetcher the video markers; and in a fault-free cycle every
\* YouTube key of a resolved channel that had a new item when the cycle
\* began has got its own notification and its own marker, in memory and in
\* the file, once both fetchers have returned.
C8_CategoriesIndependent ==
  [][ /\ (pc \in {"videos", "videos_sleep"} /\ run' = run) =>
           social_bot'.last_livestreams = social_bot.last_livestreams
      /\ (pc \in {"livestreams", "livestreams_sleep"} /\ run' = run) =>
           social_bot'.last_videos = social_bot.last_videos
      /\ (quiet' >= 1 /\ PastYoutube') =>
           \A k \in YoutubeKeys \cap cycle_new' :
             k[2] \in DOMAIN social_bot'.youtube_channel_ids =>
               /\ Item(k[1], k[2], feed'[k][1]) \in cycle_notes'
               /\ Seen(social_bot', k) = {feed'[k][1]}
               /\ FileSeen(config_file', k) = {feed'[k][1]} ]_vars

\* A cycle began with a new video and a new livestream and notified both.
C8_Witness ==
  /\ pc = "idle" /\ quiet >= 1
  /\ {VideoKey, LiveKey} \subseteq cycle_new
  /\ Item("video", VideoKey[2], feed[VideoKey][1]) \in cycle_notes \cap delivered
  /\ Item("live", LiveKey[2], feed[LiveKey][1]) \in cycle_notes \cap delivered

\* C9: when the search answers [3, 2, 1] newest first for a channel whose
\* marker is 2 and every call returns, fetch_youtube_videos produces one
\* notification, for 3, and sets the marker to 3 in memory and in the file;
\* the delivery that follows leaves the marker at 3.
C9_NewestOfWindowNotified ==
  [][ /\ ( /\ pc = "videos" /\ send # "pending" /\ pc' # pc /\ run' = run
           /\ quiet >= 1 /\ quiet' >= 1
           /\ feed[VideoKey] = <<3, 2, 1>>
           /\ Seen(social_bot, VideoKey) = {2} ) =>
           /\ embed' = {Item("video", VideoKey[2], 3)}
           /\ cycle_notes' = cycle_notes \cup embed'
           /\ Seen(social_bot', VideoKey) = {3}
           /\ FileSeen(config_file', VideoKey) = {3}
      /\ (Delivers /\ embed = {Item("video", VideoKey[2], 3)}) =>
           Seen(social_bot', VideoKey) = Seen(social_bot, VideoKey) ]_vars

\* The search answered [3, 2, 1] to a bot that had notified 2, and the cycle
\* notified 3 and nothing else for the key.
C9_Witness ==
  /\ pc = "idle" /\ quiet >= 1
  /\ feed[VideoKey] = <<3, 2, 1>>
  /\ VideoKey \in cycle_new
  /\ {Item("video", VideoKey[2], 2), Item("video", VideoKey[2], 3)} \subseteq delivered
  /\ cycle_notes = {Item("video", VideoKey[2], 3)}
  /\ Seen(social_bot, VideoKey) = {3}

\* C10 (as claimed): for every category, a notification is only ever for the
\* newest item of the window the source returns.
C10_OnlyNewestNotified ==
  [][Notifies => \A x \in embed' : IdOf(x) = Window(x[1], x[2])[1]]_vars

\* C10 (amended): a fetcher that keeps one marker per account notifies the
\* newest item of the window and leaves no item of the window unseen; the
\* stories fetcher notifies the first unseen story of the window and records
\* that story alone, so the other unseen stories stay unseen.
C10_NewestOrFirstUnseen ==
  [][Notifies => \A x \in embed' :
       LET k == KeyOf(x)
           w == Window(k[1], k[2]) IN
       IF k[1] = "ig_story"
         THEN /\ \E j \in DOMAIN w :
                   /\ w[j] = IdOf(x)
                   /\ \A i \in 1..(j - 1) : w[i] \in Seen(social_bot, k)
              /\ IdOf(x) \notin Seen(social_bot, k)
              /\ Seen(social_bot', k) = Seen(social_bot, k) \cup {IdOf(x)}
         ELSE /\ IdOf(x) = w[1]
              /\ Unseen(LastOf(social_bot', k[1]), k[1], k[2]) = {} ]_vars

\* Two stories were unseen; the newer was notified and a later fetch has now
\* notified the older one.
C10_Witness ==
  \E k \in StoriesKeys :
    /\ send = "pending"
    /\ Len(feed[k]) >= 2
    /\ embed = {Item(k[1], k[2], feed[k][2])}
    /\ Item(k[1], k[2], feed[k][1]) \in delivered

\* C11: an item published longer ago than the staleness window never
\* produces a notification, in any cycle, the first of a run included.
C11_StaleNeverNotified == produced \cap stale = {}

\* The loop is suspended in the hour's sleep of a YouTube fetcher.
CoolingDown == pc \in {"videos_sleep", "livestreams_sleep"}

\* A poll of another source than YouTube, or the start of a new cycle.
PollsElsewhere ==
  \/ Tick
  \/ fetch_bluesky_posts({"ok"})
  \/ fetch_instagram_posts({"ok"})
  \/ fetch_instagram_stories({"ok"})
  \/ fetch_instagram_lives({"ok"})

\* C13: while YouTube is in its cooldown after a quota error, the other
\* sources go on being polled: the cycle can proceed to them, or a new cycle
\* can begin, before the cooldown is over.
C13_OthersPolledDuringCooldown == CoolingDown => ENABLED PollsElsewhere

\* An account of Bluesky has a post that the next fetch would find new.
HasNewPost(account) ==
  LET posts == Window("bluesky", account) IN
  posts # <<>> /\ IsNew(social_bot.last_bluesky_posts, account, posts[1])

\* C14: an error raised while one account is polled is contained at that
\* account: whatever the earlier accounts answer, an account that answers
\* and has a new post, with no new post found before it, is polled and its
\* post notified in the same cycle.
C14_ErrorContainedPerAccount ==
  (pc = "bluesky" /\ send # "pending") =>
    \A resp \in [Range(bluesky_accounts) -> {"ok", "error"}] :
      \A j \in DOMAIN bluesky_accounts :
        ( /\ resp[bluesky_accounts[j]] = "ok"
          /\ HasNewPost(bluesky_accounts[j])
          /\ \A i \in 1..(j - 1) :
               resp[bluesky_accounts[i]] = "error" \/ ~HasNewPost(bluesky_accounts[i]) ) =>
          BlueskyScan(1, resp, social_bot.last_bluesky_posts).embed =
            {Item("bluesky", bluesky_accounts[j], Window("bluesky", bluesky_accounts[j])[1])}

\* fetch_instagram_posts makes its calls: the guard of lines 425-427.
PollsInstagramPosts(bot) == bot.instagram_client /\ bot.notify_instagram_posts

\* C15: once the calls for the Instagram posts have failed FailureCeiling
\* times in a row, the source is disabled: the fetcher no longer polls it.
C15_DisabledAtCeiling == failures = FailureCeiling => ~PollsInstagramPosts(social_bot)

\* C16: a write of the state file is atomic: a write that stops part-way
\* leaves the complete state that was there, so the file a restart loads is
\* never a torn one that resets the markers.
C16_WriteIsAtomic ==
  [][ /\ config_file.status = "ok" => config_file'.status = "ok"
      /\ run' # run => config_file.status # "torn" ]_vars

\* C17: when the process stops, the item of the cycle in flight has both been
\* delivered and had its marker committed to the file, or neither.
C17_StopsWithBothOrNeither ==
  [][run' # run =>
       \A x \in embed :
         (x \in delivered) <=> (IdOf(x) \in FileSeen(config_file, KeyOf(x)))]_vars

\* The category of the fetcher the loop is about to await, or is suspended in.
CategoryAt(label) ==
  CASE label = "bluesky" -> "bluesky"
    [] label \in {"videos", "videos_sleep"} -> "video"
    [] label \in {"livestreams", "livestreams_sleep"} -> "live"
    [] label = "instagram_posts" -> "ig_post"
    [] label = "instagram_stories" -> "ig_story"
    [] OTHER -> "ig_live"

CacheKeys == Range(youtube_channels) \cup Range(bluesky_accounts)
CacheValues == {1, 2}

\* The position of a key among the entries, 0 when it has none.
EntryOf(cache, key) ==
  IF \E i \in DOMAIN cache : cache[i][1] = key
    THEN CHOOSE i \in DOMAIN cache : cache[i][1] = key
    ELSE 0

\* get(key) -> value | absent: {value}, or {} for absent.
get(cache, key) ==
  IF EntryOf(cache, key) = 0 THEN {} ELSE {cache[EntryOf(cache, key)][2]}

\* A set that writes a key the cache holds where its entry stands, and leaves
\* it as old as it was: what C20 must tell from the real one.
set_in_place(cache, key, value) ==
  IF EntryOf(cache, key) # 0
    THEN [cache EXCEPT ![EntryOf(cache, key)] = <<key, value>>]
    ELSE Append(IF Len(cache) >= maxsize THEN Tail(cache) ELSE cache, <<key, value>>)

\* set(key, value): a key the cache holds gets the value and becomes the most
\* recently set; a new key at capacity evicts the single least recently set
\* entry first.
set(cache, key, value) ==
  IF EntryOf(cache, key) # 0
    THEN Append(SelectSeq(cache, LAMBDA e : e[1] # key), <<key, value>>)
    ELSE Append(IF Len(cache) >= maxsize THEN Tail(cache) ELSE cache, <<key, value>>)

\* A caller sets a key.
cache_set(key, value) ==
  /\ Len(cache_log.sets) < MaxSets
  /\ result_cache' = set(result_cache, key, value)
  /\ cache_log' = [sets |-> Append(cache_log.sets, <<key, value>>), got |-> <<>>]
  /\ UNCHANGED program_vars

\* A caller gets a key.
cache_get(key) ==
  /\ cache_log.got # <<key, get(result_cache, key)>>
  /\ cache_log' = [cache_log EXCEPT !.got = <<key, get(result_cache, key)>>]
  /\ UNCHANGED <<program_vars, result_cache>>

NextCache ==
  \/ \E key \in CacheKeys, value \in CacheValues : cache_set(key, value)
  \/ \E key \in CacheKeys : cache_get(key)

SpecCache == Init({}) /\ [][NextCache]_vars

\* The last set of a key among the sets made so far, 0 when it was never set.
LastSet(key) ==
  LET at == {i \in DOMAIN cache_log.sets : cache_log.sets[i][1] = key} IN
  IF at = {} THEN 0 ELSE CHOOSE i \in at : \A j \in at : j <= i

\* The keys set after the last set of a key.
SetSince(key) ==
  {cache_log.sets[j][1] : j \in {i \in DOMAIN cache_log.sets : i > LastSet(key)}}

\* What a get of a key has to answer: the value of its last set, unless
\* maxsize other keys were set since.
Answer(key) ==
  IF LastSet(key) = 0 \/ Cardinality(SetSince(key)) >= maxsize
    THEN {}
    ELSE {cache_log.sets[LastSet(key)][2]}

C19_RateBounded == youtube_calls <= max_requests

\* A step that is one call of fetch_bluesky_posts, and the accounts, by their
\* place in bluesky_accounts, whose newest post is new when it is called.
BlueskyCall == pc = "bluesky" /\ pc' = "videos"
\* A step in which a fetch_* coroutine runs, to its return or to its sleep.
FetchStep == run' = run /\ pc # "idle" /\ pc' # pc
NewPlaces == {i \in DOMAIN bluesky_accounts : HasNewPost(bluesky_accounts[i])}
FirstNewPlace == CHOOSE i \in NewPlaces : \A j \in NewPlaces : i <= j

\* C21: a fetch returns at most one embed and changes the marker of at most
\* one key per call.  A call of fetch_bluesky_posts changes no marker but
\* that of the first account, in list order, with a new post, and returns no
\* embed but that post's; in a cycle without a fault it does return it.  So
\* the accounts after it keep their new posts for the cycles that follow.
C21_StopsAtFirstNewAccount ==
  [][ /\ FetchStep =>
           /\ Cardinality(embed') <= 1
           /\ Cardinality({k \in Keys : Seen(social_bot', k) # Seen(social_bot, k)}) <= 1
      /\ BlueskyCall =>
           /\ \A i \in DOMAIN bluesky_accounts :
                LET k == <<"bluesky", bluesky_accounts[i]>> IN
                Seen(social_bot', k) # Seen(social_bot, k) =>
                  /\ NewPlaces # {} /\ i = FirstNewPlace
                  /\ Seen(social_bot', k) = {Window("bluesky", k[2])[1]}
           /\ \A x \in embed' :
                /\ NewPlaces # {}
                /\ x = Item("bluesky", bluesky_accounts[FirstNewPlace],
                            Window("bluesky", bluesky_accounts[FirstNewPlace])[1])
           /\ (quiet > 0 /\ quiet' > 0 /\ NewPlaces # {}) => embed' # {} ]_vars

\* Two accounts had a new post each: one cycle notified the post of the
\* first, and the cycle after it, on unchanged feeds, the post of the second.
C21_Witness ==
  /\ quiet = 2
  /\ \E a \in prev_notes : KeyOf(a) = <<"bluesky", bluesky_accounts[1]>>
  /\ \E b \in cycle_notes : KeyOf(b) = <<"bluesky", bluesky_accounts[2]>>

\* C22: whatever a fetch has returned, the file holds for every key the ids
\* the object holds as seen: no marker is changed in memory and left unsaved.
C22_FileMatchesMemory ==
  \A k \in Keys : Seen(social_bot, k) = FileSeen(config_file, k)

\* The newest item a source returns for a key is not among the ids seen.
NewestIsNew(k) ==
  Window(k[1], k[2]) # <<>> /\ Window(k[1], k[2])[1] \notin Seen(social_bot, k)

\* A step that is one call of the fetcher of a flagged category.
FetchOf(cat) ==
  /\ FetchStep
  /\ pc \in {"videos", "livestreams", "instagram_posts", "instagram_stories",
              "instagram_lives"}
  /\ CategoryAt(pc) = cat

\* C23: with the notify flag of its category off, a fetch returns None,
\* sends the source nothing and changes neither a field of the object nor
\* the file; with the flag on, in a cycle without a fault, it returns the
\* embed of the newest item whenever that item is not recorded as seen, so an
\* item that became the newest while the flag was off is notified once the
\* flag is on.
C23_FlagOffLeavesAllUnchanged ==
  [][\A k \in {k \in Keys : k[1] \in FlaggedCats} :
       FetchOf(k[1]) =>
         IF ~social_bot[FlagOf(k[1])]
           THEN /\ embed' = {}
                /\ social_bot' = social_bot
                /\ config_file' = config_file
                /\ youtube_calls' = youtube_calls
           ELSE (quiet > 0 /\ quiet' > 0 /\ NewestIsNew(k)) =>
                  embed' = {Item(k[1], k[2], Window(k[1], k[2])[1])} ]_vars

\* fetch_youtube_videos has returned with notify_videos off while the channel
\* held a video that is not recorded as seen, and it is still not recorded.
C23_Witness ==
  /\ pc = "livestreams" /\ run = 0
  /\ ~social_bot.notify_videos
  /\ embed = {}
  /\ NewestIsNew(VideoKey)

\* C24: the seen list of an account never holds more than StoriesKept ids; a
\* call of fetch_instagram_stories that returns an embed returns that of the
\* first story, in feed order, whose id is not in the list, and records it;
\* and no story is notified a second time while it is in the feed.
C24_StoryNotifiedOnce ==
  [][ /\ \A k \in StoriesKeys : Cardinality(Seen(social_bot', k)) <= StoriesKept
      /\ (pc = "instagram_stories" /\ Notifies) =>
           \A x \in embed' :
             LET stories == Window("ig_story", x[2])
                 j == FirstUnseen(stories, 1, social_bot.last_instagram_stories, x[2]) IN
             /\ j > 0 /\ IdOf(x) = stories[j]
             /\ IdOf(x) \in Seen(social_bot', KeyOf(x))
             /\ x \notin produced ]_vars

\* The call at hand reaches the account of a key: Bluesky accounts before it
\* have no new post, a YouTube handle has its channel id, an Instagram fetch
\* has its client and its flag.
Polled(k) ==
  CASE k[1] = "bluesky" ->
         \A i \in DOMAIN bluesky_accounts :
           HasNewPost(bluesky_accounts[i]) =>
             \A j \in DOMAIN bluesky_accounts : bluesky_accounts[j] = k[2] => j <= i
    [] k[1] \in {"video", "live"} ->
         k[2] \in DOMAIN social_bot.youtube_channel_ids /\ social_bot[FlagOf(k[1])]
    [] OTHER -> social_bot.instagram_client /\ social_bot[FlagOf(k[1])]

\* A step that is one call of the fetcher of a key's category, from its
\* beginning, in a cycle without a fault.
CleanFetchOf(k) ==
  /\ FetchStep
  /\ pc \notin {"videos_sleep", "livestreams_sleep"}
  /\ CategoryAt(pc) = k[1]
  /\ quiet > 0 /\ quiet' > 0

\* C25: a key that has no marker is not given one silently: the first poll
\* that succeeds and finds the source holding an item for the key returns the
\* embed of the newest item and sets the marker to it, and no successful poll
\* records an id for such a key without returning its embed.
C25_FirstPollNotifies ==
  [][\A k \in Keys :
       (CleanFetchOf(k) /\ k[2] \notin DOMAIN LastOf(social_bot, k[1])) =>
         LET w == Window(k[1], k[2]) IN
         /\ (Polled(k) /\ w # <<>>) =>
              /\ embed' = {Item(k[1], k[2], w[1])}
              /\ Seen(social_bot', k) = {w[1]}
         /\ Seen(social_bot', k) # {} => embed' = ItemsOf(k, Seen(social_bot', k)) ]_vars

\* The first video a channel ever published has been notified by the first
\* run, which started without a file, in a cycle without a fault.
C25_Witness ==
  /\ run = 0 /\ quiet > 0
  /\ published[VideoKey] = 1
  /\ Item("video", VideoKey[2], 1) \in cycle_notes
  /\ Seen(social_bot, VideoKey) = {1}

\* A step that is one call of an Instagram fetcher, and what the loop of the
\* fetcher at a label leaves when the calls meet `resp`.
InstagramFetch ==
  FetchStep /\ pc \in {"instagram_posts", "instagram_stories", "instagram_lives"}
InstagramLoop(label, resp) ==
  CASE label = "instagram_posts" ->
         InstagramScan("ig_post", 1, resp, social_bot.last_instagram_posts)
    [] label = "instagram_stories" ->
         StoriesScan(1, resp, social_bot.last_instagram_stories)
    [] OTHER -> InstagramScan("ig_live", 1, resp, social_bot.last_instagram_lives)

\* C26: with instagram_client absent an Instagram fetch returns None and
\* changes neither the object nor the file, while a Bluesky or YouTube fetch
\* of the same cycle still returns the embed of a new item; a fetch in which
\* a call raises login_required calls init_instagram_client once and returns
\* None with every marker as it was, also when that login fails and leaves
\* the client absent.
C26_AbsentClientPollsNothing ==
  [][ /\ (InstagramFetch /\ ~social_bot.instagram_client) =>
           /\ embed' = {}
           /\ social_bot' = social_bot
           /\ config_file' = config_file
      /\ \A k \in BlueskyKeys \cup YoutubeKeys :
           ( /\ CleanFetchOf(k) /\ Polled(k) /\ NewestIsNew(k)
             /\ ~social_bot.instagram_client ) =>
             embed' = {Item(k[1], k[2], Window(k[1], k[2])[1])}
      /\ (InstagramFetch /\ social_bot.instagram_client) =>
           /\ \A resp \in [Range(instagram_accounts) -> {"login_required"}] :
                LET r == InstagramLoop(pc, resp) IN
                /\ r.relogin /\ r.embed = {} /\ ~r.save
                /\ r.last = InstagramLoop(pc, [a \in Range(instagram_accounts) |-> "error"]).last
           /\ ~social_bot'.instagram_client =>
                /\ embed' = {}
                /\ config_file' = config_file
                /\ \A k \in Keys : Seen(social_bot', k) = Seen(social_bot, k) ]_vars

\* In one run the client was there and an Instagram post was notified; a
\* re-login failed; since then a new Instagram post waits unseen, while a
\* cycle that skipped the Instagram fetchers has notified a new video.
C26_Witness ==
  /\ run = 0 /\ pc = "idle" /\ quiet > 0
  /\ ~social_bot.instagram_client
  /\ \E x \in produced : x[1] = "ig_post"
  /\ NewestIsNew(<<"ig_post", instagram_accounts[1]>>)
  /\ \E x \in cycle_notes : x[1] = "video"

\* The channel ids a complete file stores.
StoredIds(file) == IF file.status = "ok" THEN file.data.youtube_channel_ids ELSE EmptyDict

\* A step that is one call of a YouTube fetcher, from its beginning or from
\* its sleep on.
YoutubeFetch ==
  FetchStep /\ pc \in {"videos", "videos_sleep", "livestreams", "livestreams_sleep"}

\* C27: the constructor searches the channel of a handle only when the file
\* stores no id for it, and keeps a stored id as it is; the ids do not change
\* during a run; and for a handle without an id the YouTube fetchers send no
\* request, return no embed and set no marker.
C27_ResolvedOnceAndUnresolvedNeverPolled ==
  [][ /\ run' # run =>
           /\ youtube_calls' =
                Cardinality(Range(youtube_channels) \ DOMAIN StoredIds(config_file))
           /\ \A h \in DOMAIN StoredIds(config_file) :
                /\ h \in DOMAIN social_bot'.youtube_channel_ids
                /\ social_bot'.youtube_channel_ids[h] = StoredIds(config_file)[h]
      /\ run' = run => social_bot'.youtube_channel_ids = social_bot.youtube_channel_ids
      /\ (YoutubeFetch /\ DOMAIN social_bot.youtube_channel_ids = {}) =>
           /\ embed' = {}
           /\ youtube_calls' = youtube_calls
           /\ \A k \in YoutubeKeys : Seen(social_bot', k) = Seen(social_bot, k) ]_vars

\* The search of the constructor did not resolve the handle; the channel has
\* a video that is not recorded as seen, and fetch_youtube_videos has
\* returned without a request.
C27_Witness ==
  /\ pc = "livestreams"
  /\ DOMAIN social_bot.youtube_channel_ids = {}
  /\ NewestIsNew(VideoKey)
  /\ youtube_calls = 0

====
